---- MODULE Spec2Model ----
(***************************************************************************)
(* A model of the chess position of Stockfish-BitBoard:                    *)
(* src/Stockfish/position.h and src/Stockfish/position.cpp.                *)
(*                                                                         *)
(* A bitboard is modelled as the set of its squares, a square as 0..63     *)
(* (a1 = 0, h1 = 7, a8 = 56), SQ_NONE as 64, a piece as its enum value     *)
(* (W_PAWN = 1 .. W_KING = 6, B_PAWN = 9 .. B_KING = 14), a set of         *)
(* castling rights as a subset of {1, 2, 4, 8}, and a notation string as   *)
(* the sequence of its characters.                                         *)
(***************************************************************************)
EXTENDS Integers, Sequences, FiniteSets, TLC

VARIABLES
  board, byTypeBB, byColorBB, epSquare, pieceCount, index, pieceList,
  castlingRightsMask, castlingRookSquare, castlingPath,
  checkersBB, blockersForKing, pinnersForKing, checkSquares,
  sideToMove, castlingRights, rule50, pliesFromNull, turn,
  fenIn, fenOut, departed, lastMove, sbCall, phase,
  src, depth, eqCall

posVars == <<board, byTypeBB, byColorBB, epSquare, pieceCount, index, pieceList,
             castlingRightsMask, castlingRookSquare, castlingPath,
             checkersBB, blockersForKing, pinnersForKing, checkSquares,
             sideToMove, castlingRights, rule50, pliesFromNull, turn>>

\* the position a node is constructed from or compared with, the nesting of
\* the copy assignment's calls, the last comparison made
nodeVars == <<src, depth, eqCall>>

vars == <<posVars, fenIn, fenOut, departed, lastMove, sbCall, phase, nodeVars>>

(***************************************************************************)
(* types.h (not among the sources): the enumerations the position uses.    *)
(***************************************************************************)
WHITE == 0
BLACK == 1
NO_PIECE == 0
ALL_PIECES == 0
PAWN == 1
KNIGHT == 2
BISHOP == 3
ROOK == 4
QUEEN == 5
KING == 6
SQ_NONE == 64
WHITE_OO == 1
WHITE_OOO == 2
BLACK_OO == 4
BLACK_OOO == 8
KING_SIDE == 0
QUEEN_SIDE == 1

Squares == 0 .. 63
Colors == {WHITE, BLACK}
PieceTypes == PAWN .. KING
Pieces == (1 .. 6) \cup (9 .. 14)
AllRights == {WHITE_OO, WHITE_OOO, BLACK_OO, BLACK_OOO}

Min(a, b) == IF a < b THEN a ELSE b
Max(a, b) == IF a < b THEN b ELSE a
Abs(a) == IF a < 0 THEN -a ELSE a

file_of(s) == s % 8
rank_of(s) == s \div 8
make_square(f, r) == r * 8 + f
color_of(pc) == pc \div 8
type_of(pc) == pc % 8
make_piece(c, pt) == c * 8 + pt
Them(c) == 1 - c
\* relative_square(c, s) is s ^ (c * 56): the rank is mirrored for BLACK
relative_square(c, s) == IF c = WHITE THEN s ELSE make_square(file_of(s), 7 - rank_of(s))
\* relative_rank(c, r) is r ^ (c * 7)
relative_rank(c, r) == IF c = WHITE THEN r ELSE 7 - r
pawn_push(c) == IF c = WHITE THEN 8 ELSE -8
\* operator|(Color, CastlingSide): WHITE_OO << ((s == QUEEN_SIDE) + 2 * c)
MakeCastlingRight(c, cs) ==
  IF c = WHITE THEN (IF cs = KING_SIDE THEN WHITE_OO ELSE WHITE_OOO)
  ELSE (IF cs = KING_SIDE THEN BLACK_OO ELSE BLACK_OOO)
RightsOf(c) == {MakeCastlingRight(c, KING_SIDE), MakeCastlingRight(c, QUEEN_SIDE)}

(***************************************************************************)
(* bitboard.h (not among the sources): the attack geometry of section 4.2  *)
(* of the specification. The tables are computed once.                     *)
(***************************************************************************)
SameLineR(a, b) == a /= b /\ (file_of(a) = file_of(b) \/ rank_of(a) = rank_of(b))
SameLineB(a, b) == a /= b /\ Abs(file_of(a) - file_of(b)) = Abs(rank_of(a) - rank_of(b))

KnightTab ==
  [s \in Squares |-> {t \in Squares :
      LET df == Abs(file_of(s) - file_of(t))
          dr == Abs(rank_of(s) - rank_of(t))
      IN  (df = 1 /\ dr = 2) \/ (df = 2 /\ dr = 1)}]

KingTab ==
  [s \in Squares |-> {t \in Squares :
      /\ t /= s
      /\ Abs(file_of(s) - file_of(t)) <= 1
      /\ Abs(rank_of(s) - rank_of(t)) <= 1}]

\* the squares a pawn of colour c on s attacks: diagonally forward
PawnTab ==
  [c \in Colors |-> [s \in Squares |-> {t \in Squares :
      /\ Abs(file_of(s) - file_of(t)) = 1
      /\ rank_of(t) - rank_of(s) = (IF c = WHITE THEN 1 ELSE -1)}]]

RookTab == [s \in Squares |-> {t \in Squares : SameLineR(s, t)}]
BishopTab == [s \in Squares |-> {t \in Squares : SameLineB(s, t)}]

\* between_bb(a, b): the squares strictly between two aligned squares
BetweenTab ==
  [a \in Squares |-> [b \in Squares |->
     IF SameLineR(a, b) \/ SameLineB(a, b)
     THEN {t \in Squares :
             /\ t /= a /\ t /= b
             /\ Min(file_of(a), file_of(b)) <= file_of(t)
             /\ file_of(t) <= Max(file_of(a), file_of(b))
             /\ Min(rank_of(a), rank_of(b)) <= rank_of(t)
             /\ rank_of(t) <= Max(rank_of(a), rank_of(b))
             /\ IF SameLineR(a, b) THEN SameLineR(a, t) /\ SameLineR(t, b)
                                   ELSE SameLineB(a, t) /\ SameLineB(t, b)}
     ELSE {}]]

\* LineBB[a][b]: the whole line through two aligned squares, both included
LineTab ==
  [a \in Squares |-> [b \in Squares |->
     IF SameLineR(a, b) THEN ((RookTab[a] \cap RookTab[b]) \cup {a, b})
     ELSE IF SameLineB(a, b) THEN ((BishopTab[a] \cap BishopTab[b]) \cup {a, b})
     ELSE {}]]

between_bb(a, b) == BetweenTab[a][b]
aligned(a, b, c) == c \in LineTab[a][b]
more_than_one(b) == Cardinality(b) > 1

\* PseudoAttacks[pt][s]: the attacks of a piece type on an empty board
PseudoAttacks(pt, s) ==
  CASE pt = ROOK -> RookTab[s]
    [] pt = BISHOP -> BishopTab[s]
    [] pt = QUEEN -> RookTab[s] \cup BishopTab[s]
    [] pt = KNIGHT -> KnightTab[s]
    [] pt = KING -> KingTab[s]
    [] OTHER -> {}

\* StepAttacksBB[pc][s], indexed by piece
StepAttacksBB(pc, s) ==
  CASE type_of(pc) = PAWN /\ pc \in Pieces -> PawnTab[color_of(pc)][s]
    [] type_of(pc) = KNIGHT /\ pc \in Pieces -> KnightTab[s]
    [] type_of(pc) = KING /\ pc \in Pieces -> KingTab[s]
    [] OTHER -> {}

\* attacks_bb<ROOK>(s, occ), attacks_bb<BISHOP>(s, occ): a ray stops at, and
\* includes, the first occupied square
attacks_bb_rook(s, occ) == {t \in RookTab[s] : BetweenTab[s][t] \cap occ = {}}
attacks_bb_bishop(s, occ) == {t \in BishopTab[s] : BetweenTab[s][t] \cap occ = {}}

\* attacks_bb(Piece pc, Square s, Bitboard occ)
attacks_bb(pc, s, occ) ==
  CASE type_of(pc) = BISHOP -> attacks_bb_bishop(s, occ)
    [] type_of(pc) = ROOK -> attacks_bb_rook(s, occ)
    [] type_of(pc) = QUEEN -> attacks_bb_rook(s, occ) \cup attacks_bb_bishop(s, occ)
    [] OTHER -> StepAttacksBB(pc, s)

(***************************************************************************)
(* The position as a value: one field per data member of struct Position.  *)
(***************************************************************************)
This ==
  [board |-> board, byTypeBB |-> byTypeBB, byColorBB |-> byColorBB,
   epSquare |-> epSquare, pieceCount |-> pieceCount, index |-> index,
   pieceList |-> pieceList, castlingRightsMask |-> castlingRightsMask,
   castlingRookSquare |-> castlingRookSquare, castlingPath |-> castlingPath,
   checkersBB |-> checkersBB, blockersForKing |-> blockersForKing,
   pinnersForKing |-> pinnersForKing, checkSquares |-> checkSquares,
   sideToMove |-> sideToMove, castlingRights |-> castlingRights,
   rule50 |-> rule50, pliesFromNull |-> pliesFromNull, turn |-> turn]

\* the position P becomes the next state's position
Becomes(P) ==
  /\ board' = P.board
  /\ byTypeBB' = P.byTypeBB
  /\ byColorBB' = P.byColorBB
  /\ epSquare' = P.epSquare
  /\ pieceCount' = P.pieceCount
  /\ index' = P.index
  /\ pieceList' = P.pieceList
  /\ castlingRightsMask' = P.castlingRightsMask
  /\ castlingRookSquare' = P.castlingRookSquare
  /\ castlingPath' = P.castlingPath
  /\ checkersBB' = P.checkersBB
  /\ blockersForKing' = P.blockersForKing
  /\ pinnersForKing' = P.pinnersForKing
  /\ checkSquares' = P.checkSquares
  /\ sideToMove' = P.sideToMove
  /\ castlingRights' = P.castlingRights
  /\ rule50' = P.rule50
  /\ pliesFromNull' = P.pliesFromNull
  /\ turn' = P.turn

\* the position P is the current state's position
Is(P) ==
  /\ board = P.board
  /\ byTypeBB = P.byTypeBB
  /\ byColorBB = P.byColorBB
  /\ epSquare = P.epSquare
  /\ pieceCount = P.pieceCount
  /\ index = P.index
  /\ pieceList = P.pieceList
  /\ castlingRightsMask = P.castlingRightsMask
  /\ castlingRookSquare = P.castlingRookSquare
  /\ castlingPath = P.castlingPath
  /\ checkersBB = P.checkersBB
  /\ blockersForKing = P.blockersForKing
  /\ pinnersForKing = P.pinnersForKing
  /\ checkSquares = P.checkSquares
  /\ sideToMove = P.sideToMove
  /\ castlingRights = P.castlingRights
  /\ rule50 = P.rule50
  /\ pliesFromNull = P.pliesFromNull
  /\ turn = P.turn

\* Position::clear(): memset to zero, then epSquare and pieceList to SQ_NONE
clear ==
  [board |-> [s \in Squares |-> NO_PIECE],
   byTypeBB |-> [pt \in 0 .. 7 |-> {}],
   byColorBB |-> [c \in Colors |-> {}],
   epSquare |-> SQ_NONE,
   pieceCount |-> [pc \in 0 .. 15 |-> 0],
   index |-> [s \in Squares |-> 0],
   pieceList |-> [pc \in 0 .. 15 |-> [i \in 0 .. 15 |-> SQ_NONE]],
   castlingRightsMask |-> [s \in Squares |-> {}],
   castlingRookSquare |-> [cr \in AllRights |-> 0],
   castlingPath |-> [cr \in AllRights |-> {}],
   checkersBB |-> {},
   blockersForKing |-> [c \in Colors |-> {}],
   pinnersForKing |-> [c \in Colors |-> {}],
   checkSquares |-> [pt \in 0 .. 7 |-> {}],
   sideToMove |-> WHITE,
   castlingRights |-> {},
   rule50 |-> 0, pliesFromNull |-> 0, turn |-> 0]

\* b ^ c on bitboards
Xor(b, c) == (b \ c) \cup (c \ b)

(***************************************************************************)
(* Board representation and the three ledger mutators (position.h).        *)
(***************************************************************************)
pieces(P) == P.byTypeBB[ALL_PIECES]
pieces_pt(P, pt) == P.byTypeBB[pt]
pieces_pt2(P, pt1, pt2) == P.byTypeBB[pt1] \cup P.byTypeBB[pt2]
pieces_c(P, c) == P.byColorBB[c]
pieces_cpt(P, c, pt) == P.byColorBB[c] \cap P.byTypeBB[pt]
pieces_cpt2(P, c, pt1, pt2) == P.byColorBB[c] \cap (P.byTypeBB[pt1] \cup P.byTypeBB[pt2])
piece_on(P, s) == P.board[s]
empty(P, s) == P.board[s] = NO_PIECE
\* square<KING>(c)
square_king(P, c) == P.pieceList[make_piece(c, KING)][0]

put_piece(P, pc, s) ==
  LET n == P.pieceCount[pc]
      all == make_piece(color_of(pc), ALL_PIECES)
      bt == [P.byTypeBB EXCEPT ![ALL_PIECES] = @ \cup {s}]
      cnt == [P.pieceCount EXCEPT ![pc] = n + 1]
  IN  [P EXCEPT
         !.board[s] = pc,
         !.byTypeBB = [bt EXCEPT ![type_of(pc)] = @ \cup {s}],
         !.byColorBB[color_of(pc)] = @ \cup {s},
         !.index[s] = n,
         !.pieceList[pc][n] = s,
         !.pieceCount = [cnt EXCEPT ![all] = @ + 1]]

\* remove_piece without "index[lastSquare] = index[s]": the last square of
\* the list is not moved into the freed slot
remove_piece_stale(P, pc, s) ==
  LET n == P.pieceCount[pc] - 1
      all == make_piece(color_of(pc), ALL_PIECES)
      lastSquare == P.pieceList[pc][n]
      bt == [P.byTypeBB EXCEPT ![ALL_PIECES] = Xor(@, {s})]
      pl1 == [P.pieceList EXCEPT ![pc][P.index[lastSquare]] = lastSquare]
      cnt == [P.pieceCount EXCEPT ![pc] = n]
  IN  [P EXCEPT
         !.byTypeBB = [bt EXCEPT ![type_of(pc)] = Xor(@, {s})],
         !.byColorBB[color_of(pc)] = Xor(@, {s}),
         !.pieceList = [pl1 EXCEPT ![pc][n] = SQ_NONE],
         !.pieceCount = [cnt EXCEPT ![all] = @ - 1]]

remove_piece(P, pc, s) ==
  LET n == P.pieceCount[pc] - 1
      all == make_piece(color_of(pc), ALL_PIECES)
      lastSquare == P.pieceList[pc][n]
      bt == [P.byTypeBB EXCEPT ![ALL_PIECES] = Xor(@, {s})]
      idx == [P.index EXCEPT ![lastSquare] = P.index[s]]
      pl1 == [P.pieceList EXCEPT ![pc][idx[lastSquare]] = lastSquare]
      cnt == [P.pieceCount EXCEPT ![pc] = n]
  IN  [P EXCEPT
         !.byTypeBB = [bt EXCEPT ![type_of(pc)] = Xor(@, {s})],
         !.byColorBB[color_of(pc)] = Xor(@, {s}),
         !.index = idx,
         !.pieceList = [pl1 EXCEPT ![pc][n] = SQ_NONE],
         !.pieceCount = [cnt EXCEPT ![all] = @ - 1]]

move_piece(P, pc, from, to) ==
  LET from_to_bb == Xor({from}, {to})
      bt == [P.byTypeBB EXCEPT ![ALL_PIECES] = Xor(@, from_to_bb)]
      b1 == [P.board EXCEPT ![from] = NO_PIECE]
      idx == [P.index EXCEPT ![to] = P.index[from]]
  IN  [P EXCEPT
         !.byTypeBB = [bt EXCEPT ![type_of(pc)] = Xor(@, from_to_bb)],
         !.byColorBB[color_of(pc)] = Xor(@, from_to_bb),
         !.board = [b1 EXCEPT ![to] = pc],
         !.index = idx,
         !.pieceList[pc][idx[to]] = to]

(***************************************************************************)
(* Castling (position.h, position.cpp).                                    *)
(***************************************************************************)
can_castle(P, cr) == cr \in P.castlingRights
can_castle_c(P, c) == P.castlingRights \cap RightsOf(c) /= {}
castling_impeded(P, cr) == pieces(P) \cap P.castlingPath[cr] /= {}

\* do_castling with white's destination squares for either colour
do_castling_white_squares(P, from, to) ==
  LET us == P.sideToMove
      kingSide == to > from
      rfrom == to
      rto == IF kingSide THEN 5 ELSE 3
      kto == IF kingSide THEN 6 ELSE 2
      P1 == remove_piece(P, make_piece(us, KING), from)
      P2 == remove_piece(P1, make_piece(us, ROOK), rfrom)
      b1 == [P2.board EXCEPT ![from] = NO_PIECE]
      P3 == [P2 EXCEPT !.board = [b1 EXCEPT ![rfrom] = NO_PIECE]]
      P4 == put_piece(P3, make_piece(us, KING), kto)
  IN  [pos |-> put_piece(P4, make_piece(us, ROOK), rto),
       to |-> kto, rfrom |-> rfrom, rto |-> rto]

\* do_castling without "board[from] = board[rfrom] = NO_PIECE"
do_castling_keeps_origins(P, from, to) ==
  LET us == P.sideToMove
      kingSide == to > from
      rfrom == to
      rto == relative_square(us, IF kingSide THEN 5 ELSE 3)
      kto == relative_square(us, IF kingSide THEN 6 ELSE 2)
      P1 == remove_piece(P, make_piece(us, KING), from)
      P2 == remove_piece(P1, make_piece(us, ROOK), rfrom)
      P4 == put_piece(P2, make_piece(us, KING), kto)
  IN  [pos |-> put_piece(P4, make_piece(us, ROOK), rto),
       to |-> kto, rfrom |-> rfrom, rto |-> rto]

\* do_castling(from, to, rfrom, rto): the position, and the three squares
\* it hands back through its reference parameters
do_castling(P, from, to) ==
  LET us == P.sideToMove
      kingSide == to > from
      rfrom == to
      rto == relative_square(us, IF kingSide THEN 5 ELSE 3)
      kto == relative_square(us, IF kingSide THEN 6 ELSE 2)
      P1 == remove_piece(P, make_piece(us, KING), from)
      P2 == remove_piece(P1, make_piece(us, ROOK), rfrom)
      b1 == [P2.board EXCEPT ![from] = NO_PIECE]
      P3 == [P2 EXCEPT !.board = [b1 EXCEPT ![rfrom] = NO_PIECE]]
      P4 == put_piece(P3, make_piece(us, KING), kto)
  IN  [pos |-> put_piece(P4, make_piece(us, ROOK), rto),
       to |-> kto, rfrom |-> rfrom, rto |-> rto]

\* set_castling_right whose path holds the king's squares only, not the rook's
set_castling_right_no_rook_path(P, c, rfrom) ==
  LET kfrom == square_king(P, c)
      cs == IF kfrom < rfrom THEN KING_SIDE ELSE QUEEN_SIDE
      cr == MakeCastlingRight(c, cs)
      m1 == [P.castlingRightsMask EXCEPT ![kfrom] = @ \cup {cr}]
      kto == relative_square(c, IF cs = KING_SIDE THEN 6 ELSE 2)
      kingPath == {s \in Min(kfrom, kto) .. Max(kfrom, kto) : s /= kfrom /\ s /= rfrom}
  IN  [P EXCEPT
         !.castlingRights = @ \cup {cr},
         !.castlingRightsMask = [m1 EXCEPT ![rfrom] = @ \cup {cr}],
         !.castlingRookSquare[cr] = rfrom,
         !.castlingPath[cr] = @ \cup kingPath]

set_castling_right(P, c, rfrom) ==
  LET kfrom == square_king(P, c)
      cs == IF kfrom < rfrom THEN KING_SIDE ELSE QUEEN_SIDE
      cr == MakeCastlingRight(c, cs)
      m1 == [P.castlingRightsMask EXCEPT ![kfrom] = @ \cup {cr}]
      kto == relative_square(c, IF cs = KING_SIDE THEN 6 ELSE 2)
      rto == relative_square(c, IF cs = KING_SIDE THEN 5 ELSE 3)
      rookPath == {s \in Min(rfrom, rto) .. Max(rfrom, rto) : s /= kfrom /\ s /= rfrom}
      kingPath == {s \in Min(kfrom, kto) .. Max(kfrom, kto) : s /= kfrom /\ s /= rfrom}
  IN  [P EXCEPT
         !.castlingRights = @ \cup {cr},
         !.castlingRightsMask = [m1 EXCEPT ![rfrom] = @ \cup {cr}],
         !.castlingRookSquare[cr] = rfrom,
         !.castlingPath[cr] = @ \cup rookPath \cup kingPath]

(***************************************************************************)
(* Moves (types.h): origin, destination, category and promotion role. A    *)
(* castling move is encoded as "king captures its own rook".               *)
(***************************************************************************)
Mv(from, to, type, promo) == [from |-> from, to |-> to, type |-> type, promo |-> promo]
from_sq(m) == m.from
to_sq(m) == m.to
move_type(m) == m.type
promotion_type(m) == m.promo
NoMove == [from |-> SQ_NONE, to |-> SQ_NONE, type |-> "NONE", promo |-> KNIGHT]
\* no call of slider_blockers has been made on the current board
NoCall == [s |-> SQ_NONE, sliders |-> {}, result |-> {}, pinners |-> {}]

(***************************************************************************)
(* Attacking and checking (position.cpp).                                  *)
(***************************************************************************)
\* attacks_from<PAWN>(s, c)
attacks_from_pawn(s, c) == StepAttacksBB(make_piece(c, PAWN), s)

attackers_to(P, s, occ) ==
       (attacks_from_pawn(s, BLACK) \cap pieces_cpt(P, WHITE, PAWN))
  \cup (attacks_from_pawn(s, WHITE) \cap pieces_cpt(P, BLACK, PAWN))
  \cup (StepAttacksBB(KNIGHT, s) \cap pieces_pt(P, KNIGHT))
  \cup (attacks_bb_rook(s, occ) \cap pieces_pt2(P, ROOK, QUEEN))
  \cup (attacks_bb_bishop(s, occ) \cap pieces_pt2(P, BISHOP, QUEEN))
  \cup (StepAttacksBB(KING, s) \cap pieces_pt(P, KING))

\* attackers_to(s): under the current occupancy
attackers_to_cur(P, s) == attackers_to(P, s, P.byTypeBB[ALL_PIECES])

checkers(P) == P.checkersBB
discovered_check_candidates(P) ==
  P.blockersForKing[Them(P.sideToMove)] \cap pieces_c(P, P.sideToMove)
pinned_pieces(P, c) == P.blockersForKing[c] \cap pieces_c(P, c)
check_squares(P, pt) == P.checkSquares[pt]

\* slider_blockers that counts a segment of two pieces as blocked, too
slider_blockers_two(P, sliders, s) ==
  LET snipers == (  (PseudoAttacks(ROOK, s) \cap pieces_pt2(P, QUEEN, ROOK))
                  \cup (PseudoAttacks(BISHOP, s) \cap pieces_pt2(P, QUEEN, BISHOP)))
                 \cap sliders
      b(sniperSq) == between_bb(s, sniperSq) \cap pieces(P)
  IN  [result |-> UNION {b(sq) : sq \in {x \in snipers : Cardinality(b(x)) <= 2}},
       pinners |-> {sq \in snipers :
                      /\ Cardinality(b(sq)) <= 2
                      /\ b(sq) \cap pieces_c(P, color_of(piece_on(P, s))) /= {}}]

\* slider_blockers(sliders, s, pinners): the returned blockers and the
\* pinners written through the reference parameter. The loop pops the
\* snipers one by one; each adds to the two sets independently of the others.
slider_blockers(P, sliders, s) ==
  LET snipers == (  (PseudoAttacks(ROOK, s) \cap pieces_pt2(P, QUEEN, ROOK))
                  \cup (PseudoAttacks(BISHOP, s) \cap pieces_pt2(P, QUEEN, BISHOP)))
                 \cap sliders
      b(sniperSq) == between_bb(s, sniperSq) \cap pieces(P)
  IN  [result |-> UNION {b(sq) : sq \in {x \in snipers : ~more_than_one(b(x))}},
       pinners |-> {sq \in snipers :
                      /\ ~more_than_one(b(sq))
                      /\ b(sq) \cap pieces_c(P, color_of(piece_on(P, s))) /= {}}]

gives_check(P, m) ==
  LET from == from_sq(m)
      to == to_sq(m)
      us == P.sideToMove
      ksq == square_king(P, Them(us))
  IN  IF to \in P.checkSquares[type_of(piece_on(P, from))] THEN TRUE
      ELSE IF from \in discovered_check_candidates(P) /\ ~aligned(from, to, ksq) THEN TRUE
      ELSE CASE move_type(m) = "NORMAL" -> FALSE
             [] move_type(m) = "PROMOTION" ->
                  ksq \in attacks_bb(promotion_type(m), to, Xor(pieces(P), {from}))
             [] move_type(m) = "ENPASSANT" ->
                  LET capsq == make_square(file_of(to), rank_of(from))
                      b == Xor(Xor(pieces(P), {from}), {capsq}) \cup {to}
                  IN     (attacks_bb_rook(ksq, b) \cap pieces_cpt2(P, us, QUEEN, ROOK)) /= {}
                      \/ (attacks_bb_bishop(ksq, b) \cap pieces_cpt2(P, us, QUEEN, BISHOP)) /= {}
             [] move_type(m) = "CASTLING" ->
                  LET kfrom == from
                      rfrom == to
                      kto == relative_square(us, IF rfrom > kfrom THEN 6 ELSE 2)
                      rto == relative_square(us, IF rfrom > kfrom THEN 5 ELSE 3)
                  IN  /\ ksq \in PseudoAttacks(ROOK, rto)
                      /\ ksq \in attacks_bb_rook(rto,
                                   Xor(Xor(pieces(P), {kfrom}), {rfrom}) \cup {rto, kto})

(***************************************************************************)
(* Move evaluation (position.cpp).                                         *)
(***************************************************************************)
\* legal's en-passant case without the captured pawn taken off the board
legal_enpassant_keeps_captured(P, m) ==
  LET us == P.sideToMove
      from == from_sq(m)
      ksq == square_king(P, us)
      to == to_sq(m)
      occupied == Xor(pieces(P), {from}) \cup {to}
  IN  /\ attacks_bb_rook(ksq, occupied) \cap pieces_cpt2(P, Them(us), QUEEN, ROOK) = {}
      /\ attacks_bb_bishop(ksq, occupied) \cap pieces_cpt2(P, Them(us), QUEEN, BISHOP) = {}

legal_enpassant(P, m) ==
  LET us == P.sideToMove
      from == from_sq(m)
      ksq == square_king(P, us)
      to == to_sq(m)
      capsq == to - pawn_push(us)
      occupied == Xor(Xor(pieces(P), {from}), {capsq}) \cup {to}
  IN  /\ attacks_bb_rook(ksq, occupied) \cap pieces_cpt2(P, Them(us), QUEEN, ROOK) = {}
      /\ attacks_bb_bishop(ksq, occupied) \cap pieces_cpt2(P, Them(us), QUEEN, BISHOP) = {}

legal_king(P, m) ==
  \/ move_type(m) = "CASTLING"
  \/ attackers_to_cur(P, to_sq(m)) \cap pieces_c(P, Them(P.sideToMove)) = {}

legal_other(P, m) ==
  \/ from_sq(m) \notin pinned_pieces(P, P.sideToMove)
  \/ aligned(from_sq(m), to_sq(m), square_king(P, P.sideToMove))

legal(P, m) ==
  IF move_type(m) = "ENPASSANT" THEN legal_enpassant(P, m)
  ELSE IF type_of(piece_on(P, from_sq(m))) = KING THEN legal_king(P, m)
  ELSE legal_other(P, m)

(***************************************************************************)
(* Move execution (position.cpp, Position::move), step by step.            *)
(***************************************************************************)
\* turn++; rule50++; pliesFromNull++
move_counters(P) ==
  [P EXCEPT !.turn = @ + 1, !.rule50 = @ + 1, !.pliesFromNull = @ + 1]

\* the piece the move captures, read before anything is moved
move_captured(P, m) ==
  IF move_type(m) = "ENPASSANT" THEN make_piece(Them(P.sideToMove), PAWN)
  ELSE piece_on(P, to_sq(m))

\* CAPTURES without "rule50 = 0"
move_capture_keeps_clock(P, m, captured, to) ==
  IF captured = NO_PIECE THEN P
  ELSE LET us == P.sideToMove
           cap == IF move_type(m) = "ENPASSANT" THEN to - pawn_push(us) ELSE to
           P1 == IF move_type(m) = "ENPASSANT"
                 THEN [P EXCEPT !.board[cap] = NO_PIECE]
                 ELSE P
       IN  remove_piece(P1, captured, cap)

\* CAPTURES: remove the captured piece and reset the clock
move_capture(P, m, captured, to) ==
  IF captured = NO_PIECE THEN P
  ELSE LET us == P.sideToMove
           cap == IF move_type(m) = "ENPASSANT" THEN to - pawn_push(us) ELSE to
           P1 == IF move_type(m) = "ENPASSANT"
                 THEN [P EXCEPT !.board[cap] = NO_PIECE]
                 ELSE P
       IN  [remove_piece(P1, captured, cap) EXCEPT !.rule50 = 0]

\* a move that leaves the en-passant target standing
move_reset_ep_keeps(P) == P

\* RESET EN PASSANT
move_reset_ep(P) ==
  IF P.epSquare /= SQ_NONE THEN [P EXCEPT !.epSquare = SQ_NONE] ELSE P

\* CASTLING RIGHTS forfeited by the origin square only
move_castling_rights_origin_only(P, from, to) ==
  LET lost == P.castlingRightsMask[from]
  IN  IF P.castlingRights /= {} /\ lost /= {}
      THEN [P EXCEPT !.castlingRights = @ \ lost]
      ELSE P

\* CASTLING RIGHTS: what the origin and the destination square forfeit
move_castling_rights(P, from, to) ==
  LET lost == P.castlingRightsMask[from] \cup P.castlingRightsMask[to]
  IN  IF P.castlingRights /= {} /\ lost /= {}
      THEN [P EXCEPT !.castlingRights = @ \ lost]
      ELSE P

\* the xor of the two squares' numbers is 16
XorIs16(a, b) ==
  /\ a \div 32 = b \div 32
  /\ a % 16 = b % 16
  /\ (a \div 16) % 2 /= (b \div 16) % 2

\* PAWN MAGIC: the en-passant target, the promotion, the clock
move_pawn(P, m, pc, from, to) ==
  IF type_of(pc) /= PAWN THEN P
  ELSE LET us == P.sideToMove
           them == Them(us)
           P1 == IF /\ XorIs16(to, from)
                    /\ attacks_from_pawn(to - pawn_push(us), us)
                         \cap pieces_cpt(P, them, PAWN) /= {}
                 THEN [P EXCEPT !.epSquare = (from + to) \div 2]
                 ELSE P
           P2 == IF move_type(m) = "PROMOTION"
                 THEN put_piece(remove_piece(P1, pc, to),
                                make_piece(us, promotion_type(m)), to)
                 ELSE P1
       IN  [P2 EXCEPT !.rule50 = 0]

\* checkersBB = gives_check(m) ? attackers_to(square<KING>(them)) & pieces(us) : 0
\* (evaluated on the position as the move has left it, before the side flips)
move_checkers(P, m) ==
  LET us == P.sideToMove
  IN  [P EXCEPT !.checkersBB =
         IF gives_check(P, m)
         THEN attackers_to_cur(P, square_king(P, Them(us))) \cap pieces_c(P, us)
         ELSE {}]

\* a side to move that is set rather than flipped
move_turn_to_black(P) == [P EXCEPT !.sideToMove = BLACK]

\* UPDATE TURN COLOR
move_turn(P) == [P EXCEPT !.sideToMove = Them(@)]

move(P, m) ==
  LET P0 == move_counters(P)
      from == from_sq(m)
      pc == piece_on(P0, from)
      c == IF move_type(m) = "CASTLING"
           THEN LET d == do_castling(P0, from, to_sq(m))
                IN  [pos |-> d.pos, to |-> d.to, captured |-> NO_PIECE]
           ELSE [pos |-> P0, to |-> to_sq(m), captured |-> move_captured(P0, m)]
      to == c.to
      P2 == move_capture(c.pos, m, c.captured, to)
      P3 == move_reset_ep(P2)
      P4 == move_castling_rights(P3, from, to)
      P5 == IF move_type(m) /= "CASTLING" THEN move_piece(P4, pc, from, to) ELSE P4
      P6 == move_pawn(P5, m, pc, from, to)
      P7 == move_checkers(P6, m)
  IN  move_turn(P7)

\* Position::operator==: false at the first square where the two boards hold
\* the same value, true when the loop ends
operator_eq(P, Q) == ~ \E i \in Squares : P.board[i] = Q.board[i]

\* Position::is_draw
is_draw(P) == P.rule50 > 50

(***************************************************************************)
(* Notation codec (position.cpp, Position::fen). A string is the sequence  *)
(* of its characters; a stream is the string, the index of the next        *)
(* character, the fail flag and the last token read.                       *)
(***************************************************************************)
\* PieceToChar(" PNBRQK  pnbrqk"), the piece's enum value being the index
PieceToChar == <<" ", "P", "N", "B", "R", "Q", "K", " ", " ", "p", "n", "b", "r", "q", "k">>
DigitChars == <<"0", "1", "2", "3", "4", "5", "6", "7", "8", "9">>
LowerChars == <<"a", "b", "c", "d", "e", "f", "g", "h", "i", "j", "k", "l", "m",
                "n", "o", "p", "q", "r", "s", "t", "u", "v", "w", "x", "y", "z">>
UpperChars == <<"A", "B", "C", "D", "E", "F", "G", "H", "I", "J", "K", "L", "M",
                "N", "O", "P", "Q", "R", "S", "T", "U", "V", "W", "X", "Y", "Z">>

\* std::string::find(char): the first index (from 0) of the character, -1 for npos
Find(seq, ch) ==
  IF \E i \in 1 .. Len(seq) : seq[i] = ch
  THEN (CHOOSE i \in 1 .. Len(seq) : seq[i] = ch /\ \A j \in 1 .. i - 1 : seq[j] /= ch) - 1
  ELSE -1

isspace(ch) == ch \in {" ", "\t", "\n"}
isdigit(ch) == Find(DigitChars, ch) >= 0
islower(ch) == Find(LowerChars, ch) >= 0
toupper(ch) == IF islower(ch) THEN UpperChars[Find(LowerChars, ch) + 1] ELSE ch
\* token - '0', token - 'a', token - 'A'
DigitVal(ch) == Find(DigitChars, ch)
LowerVal(ch) == Find(LowerChars, ch)
UpperVal(ch) == Find(UpperChars, ch)

\* integer division as C++ has it: towards zero
CDiv(a, b) == IF a >= 0 THEN a \div b ELSE -((-a) \div b)

\* operator<< of a non-negative int
RECURSIVE IntToStr(_)
IntToStr(n) ==
  IF n < 0 THEN <<"-">> \o IntToStr(-n)
  ELSE IF n < 10 THEN <<DigitChars[n + 1]>>
  ELSE IntToStr(n \div 10) \o <<DigitChars[(n % 10) + 1]>>

\* to_string(Square): file letter, rank digit
to_string(s) == <<LowerChars[file_of(s) + 1], DigitChars[rank_of(s) + 2]>>

\* one rank of the board layout, from file f on
RECURSIVE FenRank(_, _, _, _)
FenRank(P, r, f, emptyCnt) ==
  IF f > 7 THEN (IF emptyCnt > 0 THEN IntToStr(emptyCnt) ELSE <<>>)
  ELSE IF empty(P, make_square(f, r)) THEN FenRank(P, r, f + 1, emptyCnt + 1)
  ELSE (IF emptyCnt > 0 THEN IntToStr(emptyCnt) ELSE <<>>)
       \o <<PieceToChar[piece_on(P, make_square(f, r)) + 1]>>
       \o FenRank(P, r, f + 1, 0)

RECURSIVE FenBoard(_, _)
FenBoard(P, r) ==
  FenRank(P, r, 0, 0) \o (IF r > 0 THEN <<"/">> \o FenBoard(P, r - 1) ELSE <<>>)

\* the full-move number encode emits
FenFullMove(P) == 1 + CDiv(P.turn - (IF P.sideToMove = BLACK THEN 1 ELSE 0), 2)

\* const std::string Position::fen() const
fen_encode(P) ==
     FenBoard(P, 7)
  \o (IF P.sideToMove = WHITE THEN <<" ", "w", " ">> ELSE <<" ", "b", " ">>)
  \o (IF can_castle(P, WHITE_OO) THEN <<"K">> ELSE <<>>)
  \o (IF can_castle(P, WHITE_OOO) THEN <<"Q">> ELSE <<>>)
  \o (IF can_castle(P, BLACK_OO) THEN <<"k">> ELSE <<>>)
  \o (IF can_castle(P, BLACK_OOO) THEN <<"q">> ELSE <<>>)
  \o (IF ~can_castle_c(P, WHITE) /\ ~can_castle_c(P, BLACK) THEN <<"-">> ELSE <<>>)
  \o (IF P.epSquare = SQ_NONE THEN <<" ", "-", " ">>
      ELSE <<" ">> \o to_string(P.epSquare) \o <<" ">>)
  \o IntToStr(P.rule50) \o <<" ">> \o IntToStr(FenFullMove(P))

\* ss >> token under noskipws: the next character, or failure at the end
Read(s, st) ==
  IF st.fail \/ st.i > Len(s) THEN [st EXCEPT !.fail = TRUE]
  ELSE [i |-> st.i + 1, fail |-> FALSE, token |-> s[st.i]]

\* PIECE PLACEMENT: d is the position, the square cursor, the stream and
\* whether a square outside the board was written
RECURSIVE FenPlacement(_, _)
FenPlacement(s, d) ==
  LET st == Read(s, d.st)
      tk == st.token
  IN  IF st.fail \/ isspace(tk) THEN [d EXCEPT !.st = st]
      ELSE IF isdigit(tk)
        THEN FenPlacement(s, [d EXCEPT !.st = st, !.sq = @ + DigitVal(tk)])
      ELSE IF tk = "/"
        THEN FenPlacement(s, [d EXCEPT !.st = st, !.sq = @ - 16])
      ELSE IF Find(PieceToChar, tk) >= 0
        THEN IF d.sq \in Squares
             THEN FenPlacement(s, [d EXCEPT !.st = st, !.sq = @ + 1,
                                    !.pos = put_piece(@, Find(PieceToChar, tk), d.sq)])
             ELSE FenPlacement(s, [d EXCEPT !.st = st, !.sq = @ + 1, !.ub = TRUE])
      ELSE FenPlacement(s, [d EXCEPT !.st = st])

\* the rook scans of the castling field: step from rsq by dir to the first
\* rook of either colour; a value outside 0..63 says the scan left the board
RECURSIVE RookScan(_, _, _)
RookScan(P, rsq, dir) ==
  IF rsq \notin Squares THEN rsq
  ELSE IF type_of(piece_on(P, rsq)) = ROOK THEN rsq
  ELSE RookScan(P, rsq + dir, dir)

\* CASTLING AVAILABILITY
RECURSIVE FenCastling(_, _)
FenCastling(s, d) ==
  LET st == Read(s, d.st)
      c == IF islower(st.token) THEN BLACK ELSE WHITE
      tk == toupper(st.token)
      rsq == IF tk = "K" THEN RookScan(d.pos, relative_square(c, 7), -1)
             ELSE IF tk = "Q" THEN RookScan(d.pos, relative_square(c, 0), 1)
             ELSE make_square(UpperVal(tk), relative_rank(c, 0))
  IN  IF st.fail \/ isspace(st.token) THEN [d EXCEPT !.st = st]
      ELSE IF tk = "K" \/ tk = "Q" \/ (UpperVal(tk) >= 0 /\ UpperVal(tk) <= 7)
        THEN IF rsq \in Squares /\ square_king(d.pos, c) \in Squares
             THEN FenCastling(s, [d EXCEPT !.st = st,
                                   !.pos = set_castling_right(@, c, rsq)])
             ELSE FenCastling(s, [d EXCEPT !.st = st, !.ub = TRUE])
      ELSE FenCastling(s, [d EXCEPT !.st = st])

\* EN PASSANTE SQUARE taken from the string as named, without looking at the pawns
FenEnPassant_unvalidated(s, d) ==
  LET st1 == Read(s, d.st)
      colOk == ~st1.fail /\ LowerVal(st1.token) >= 0 /\ LowerVal(st1.token) <= 7
      st2 == Read(s, st1)
      rowOk == ~st2.fail /\ (st2.token = "3" \/ st2.token = "6")
      ep == make_square(LowerVal(st1.token), DigitVal(st2.token) - 1)
  IN  IF ~colOk THEN [d EXCEPT !.st = st1, !.pos.epSquare = SQ_NONE]
      ELSE IF ~rowOk THEN [d EXCEPT !.st = st2, !.pos.epSquare = SQ_NONE]
      ELSE [d EXCEPT !.st = st2, !.pos.epSquare = ep]

\* EN PASSANTE SQUARE
FenEnPassant(s, d) ==
  LET st1 == Read(s, d.st)
      colOk == ~st1.fail /\ LowerVal(st1.token) >= 0 /\ LowerVal(st1.token) <= 7
      st2 == Read(s, st1)
      rowOk == ~st2.fail /\ (st2.token = "3" \/ st2.token = "6")
      P == d.pos
      ep == make_square(LowerVal(st1.token), DigitVal(st2.token) - 1)
      stm == P.sideToMove
  IN  IF ~colOk THEN [d EXCEPT !.st = st1, !.pos.epSquare = SQ_NONE]
      ELSE IF ~rowOk THEN [d EXCEPT !.st = st2, !.pos.epSquare = SQ_NONE]
      ELSE IF \/ attackers_to_cur(P, ep) \cap pieces_cpt(P, stm, PAWN) = {}
              \/ (ep + pawn_push(Them(stm))) \notin pieces_cpt(P, Them(stm), PAWN)
        THEN [d EXCEPT !.st = st2, !.pos.epSquare = SQ_NONE]
      ELSE [d EXCEPT !.st = st2, !.pos.epSquare = ep]

\* operator>> of an int under skipws: skip the white space, read the digits
RECURSIVE SkipWs(_, _)
SkipWs(s, i) == IF i <= Len(s) /\ isspace(s[i]) THEN SkipWs(s, i + 1) ELSE i
RECURSIVE ReadDigits(_, _, _)
ReadDigits(s, i, acc) ==
  IF i <= Len(s) /\ isdigit(s[i]) THEN ReadDigits(s, i + 1, acc * 10 + DigitVal(s[i]))
  ELSE [i |-> i, val |-> acc]
\* the value read (old when the stream had failed, 0 when no digit is there)
ReadInt(s, st, old) ==
  LET j == SkipWs(s, st.i)
      r == ReadDigits(s, j, 0)
  IN  IF st.fail THEN [st |-> st, val |-> old]
      ELSE IF r.i = j THEN [st |-> [st EXCEPT !.i = j, !.fail = TRUE], val |-> 0]
      ELSE [st |-> [st EXCEPT !.i = r.i], val |-> r.val]

\* void Position::fen(const std::string& s): the position decoded, and
\* whether decoding read or wrote outside the board
FenDecode(s) ==
  LET d0 == [pos |-> clear, sq |-> 56, ub |-> FALSE,
             st |-> [i |-> 1, fail |-> FALSE, token |-> ""]]
      d1 == FenPlacement(s, d0)
      stc == Read(s, d1.st)
      d2 == [d1 EXCEPT !.pos.sideToMove = IF stc.token = "w" THEN WHITE ELSE BLACK,
                       !.st = Read(s, stc)]
      d3 == FenCastling(s, d2)
      d4 == FenEnPassant(s, d3)
      r50 == ReadInt(s, d4.st, d4.pos.rule50)
      trn == ReadInt(s, r50.st, d4.pos.turn)
  IN  [pos |-> [d4.pos EXCEPT !.rule50 = r50.val, !.turn = trn.val], ub |-> d4.ub]

fen_decode(s) == FenDecode(s).pos

(***************************************************************************)
(* The notation strings the positions are constructed from.                *)
(***************************************************************************)
\* "4k3/8/8/8/8/8/8/R3K2R w KQ - 0 1": both white castlings available
FenCastle ==
  <<"4", "k", "3", "/", "8", "/", "8", "/", "8", "/", "8", "/", "8", "/",
  "8", "/", "R", "3", "K", "2", "R", " ", "w", " ", "K", "Q", " ", "-", " ",
  "0", " ", "1">>
\* "r3k3/8/8/8/8/8/8/4K3 b q - 0 1": black may castle queen side
FenCastleBlack ==
  <<"r", "3", "k", "3", "/", "8", "/", "8", "/", "8", "/", "8", "/", "8",
  "/", "8", "/", "4", "K", "3", " ", "b", " ", "q", " ", "-", " ", "0", " ",
  "1">>
\* "4kr2/8/8/8/8/8/8/4K2R w K - 0 1": f1, which the castling king crosses, is attacked
FenCastleAttacked ==
  <<"4", "k", "r", "2", "/", "8", "/", "8", "/", "8", "/", "8", "/", "8",
  "/", "8", "/", "4", "K", "2", "R", " ", "w", " ", "K", " ", "-", " ", "0",
  " ", "1">>
\* "4k3/8/8/8/8/8/8/RN2K3 w Q - 0 1": b1, between rook and king, is occupied
FenCastleBlocked ==
  <<"4", "k", "3", "/", "8", "/", "8", "/", "8", "/", "8", "/", "8", "/",
  "8", "/", "R", "N", "2", "K", "3", " ", "w", " ", "Q", " ", "-", " ", "0",
  " ", "1">>
\* "4k3/8/8/8/3p4/8/4P3/4K3 w - - 0 1": e2e4 makes e3 an en-passant target
FenDoublePush ==
  <<"4", "k", "3", "/", "8", "/", "8", "/", "8", "/", "3", "p", "4", "/",
  "8", "/", "4", "P", "3", "/", "4", "K", "3", " ", "w", " ", "-", " ", "-",
  " ", "0", " ", "1">>
\* "8/8/8/K2pP2r/8/8/8/4k3 w - d6 0 2": capturing en passant bares the king's rank to the rook
FenEpRank ==
  <<"8", "/", "8", "/", "8", "/", "K", "2", "p", "P", "2", "r", "/", "8",
  "/", "8", "/", "8", "/", "4", "k", "3", " ", "w", " ", "-", " ", "d", "6",
  " ", "0", " ", "2">>
\* "K7/8/8/3pP3/8/8/6b1/4k3 w - d6 0 2": capturing en passant bares the king's diagonal to the bishop
FenEpDiagonal ==
  <<"K", "7", "/", "8", "/", "8", "/", "3", "p", "P", "3", "/", "8", "/",
  "8", "/", "6", "b", "1", "/", "4", "k", "3", " ", "w", " ", "-", " ", "d",
  "6", " ", "0", " ", "2">>
\* "4k3/P7/8/8/8/8/8/4K3 w - - 0 1": a pawn about to promote
FenPromotion ==
  <<"4", "k", "3", "/", "P", "7", "/", "8", "/", "8", "/", "8", "/", "8",
  "/", "8", "/", "4", "K", "3", " ", "w", " ", "-", " ", "-", " ", "0", " ",
  "1">>
\* "4k3/8/8/8/8/4r3/4B3/4K3 w - - 49 30": the bishop is pinned by the rook; the clock nears fifty
FenPinned ==
  <<"4", "k", "3", "/", "8", "/", "8", "/", "8", "/", "8", "/", "4", "r",
  "3", "/", "4", "B", "3", "/", "4", "K", "3", " ", "w", " ", "-", " ", "-",
  " ", "4", "9", " ", "3", "0">>
\* "4k3/8/8/8/8/8/8/r3K3 w - - 0 1": the side to move is in check along the first rank
FenInCheck ==
  <<"4", "k", "3", "/", "8", "/", "8", "/", "8", "/", "8", "/", "8", "/",
  "8", "/", "r", "3", "K", "3", " ", "w", " ", "-", " ", "-", " ", "0", " ",
  "1">>
\* "4k2r/8/8/8/8/8/8/4K2R w Kk - 0 1": a rook can capture the rook on its home square
FenRookCapture ==
  <<"4", "k", "2", "r", "/", "8", "/", "8", "/", "8", "/", "8", "/", "8",
  "/", "8", "/", "4", "K", "2", "R", " ", "w", " ", "K", "k", " ", "-", " ",
  "0", " ", "1">>

StartFENs ==
  {FenCastle,
   FenCastleBlack,
   FenCastleAttacked,
   FenCastleBlocked,
   FenDoublePush,
   FenEpRank,
   FenEpDiagonal,
   FenPromotion,
   FenPinned,
   FenInCheck,
   FenRookCapture}

(***************************************************************************)
(* Move generation (movegen.h, not among the sources), after the           *)
(* specification: a pseudo-legal move matches the piece's movement pattern *)
(* and does not land on a friendly piece; a castling move is validated     *)
(* here against the castling path's occupancy and attacks. A king is not   *)
(* offered as a capture.                                                   *)
(***************************************************************************)
PromotionTypes == {KNIGHT, BISHOP, ROOK, QUEEN}

\* a pawn's arrival on `to`: a promotion on the last rank
PawnArrivals(us, from, to) ==
  IF relative_rank(us, rank_of(to)) = 7
  THEN {Mv(from, to, "PROMOTION", pt) : pt \in PromotionTypes}
  ELSE {Mv(from, to, "NORMAL", KNIGHT)}

PawnMoves(P, from) ==
  LET us == P.sideToMove
      them == Them(us)
      one == from + pawn_push(us)
      two == one + pawn_push(us)
      pushes == IF one \in Squares /\ empty(P, one)
                THEN PawnArrivals(us, from, one)
                     \cup (IF /\ relative_rank(us, rank_of(from)) = 1
                              /\ empty(P, two)
                           THEN {Mv(from, two, "NORMAL", KNIGHT)} ELSE {})
                ELSE {}
      takes == UNION {PawnArrivals(us, from, to) :
                        to \in (attacks_from_pawn(from, us) \cap pieces_c(P, them))
                               \ pieces_pt(P, KING)}
      enpassant == IF P.epSquare /= SQ_NONE /\ P.epSquare \in attacks_from_pawn(from, us)
                   THEN {Mv(from, P.epSquare, "ENPASSANT", KNIGHT)} ELSE {}
  IN  pushes \cup takes \cup enpassant

PieceMoves(P, from) ==
  LET us == P.sideToMove
      pc == piece_on(P, from)
      targets == attacks_bb(pc, from, pieces(P)) \ (pieces_c(P, us) \cup pieces_pt(P, KING))
  IN  {Mv(from, to, "NORMAL", KNIGHT) : to \in targets}

\* the squares the castling king passes through or lands on
KingPath(kfrom, kto) == (Min(kfrom, kto) .. Max(kfrom, kto)) \ {kfrom}

CastlingMoves(P) ==
  LET us == P.sideToMove
      kfrom == square_king(P, us)
      ok(cr) ==
        LET kingSide == (cr = MakeCastlingRight(us, KING_SIDE))
            kto == relative_square(us, IF kingSide THEN 6 ELSE 2)
        IN  /\ can_castle(P, cr)
            /\ ~castling_impeded(P, cr)
            /\ \A s \in KingPath(kfrom, kto) :
                 attackers_to_cur(P, s) \cap pieces_c(P, Them(us)) = {}
  IN  {Mv(kfrom, P.castlingRookSquare[cr], "CASTLING", KNIGHT) : cr \in {x \in RightsOf(us) : ok(x)}}

PseudoLegal(P) ==
  LET us == P.sideToMove
  IN  UNION {IF type_of(piece_on(P, from)) = PAWN THEN PawnMoves(P, from)
             ELSE PieceMoves(P, from) : from \in pieces_c(P, us)}
      \cup CastlingMoves(P)

(***************************************************************************)
(* The state machine. A position is constructed from a notation string     *)
(* and then mutated by apply-move alone; the consumer applies only moves   *)
(* the legality oracle has accepted.                                       *)
(***************************************************************************)
\* how many moves are applied after construction
MaxPly == 2

\* the squares a move empties: its origin, the castling rook's origin, the
\* square of the captured piece
Vacated(P, m) ==
  {from_sq(m)}
  \cup (IF move_type(m) = "CASTLING" THEN {to_sq(m)} ELSE {})
  \cup (IF move_type(m) = "ENPASSANT" THEN {to_sq(m) - pawn_push(P.sideToMove)} ELSE {})
  \cup (IF move_type(m) \in {"NORMAL", "PROMOTION"} /\ ~empty(P, to_sq(m))
        THEN {to_sq(m)} ELSE {})

\* no comparison has been made
NoCompare == [other |-> <<>>, result |-> FALSE]

\* no node is under construction
NoNode == src = clear /\ depth = 0 /\ eqCall = NoCompare

\* Position::Position(const std::string& fen)
Init ==
  /\ \E s \in StartFENs : fenIn = s /\ Is(fen_decode(s))
  /\ NoNode
  /\ fenOut = <<>>
  /\ departed = {}
  /\ lastMove = NoMove
  /\ sbCall = NoCall
  /\ phase = "constructed"

\* Position::move(Move m), for a pseudo-legal move that legal(m) accepts
Apply(m) ==
  /\ phase = "constructed"
  /\ pliesFromNull < MaxPly
  /\ legal(This, m)
  /\ Becomes(move(This, m))
  /\ departed' = departed \cup Vacated(This, m)
  /\ lastMove' = m
  /\ UNCHANGED <<fenIn, fenOut, sbCall, phase, nodeVars>>

ApplyNormal == \E m \in PseudoLegal(This) : move_type(m) = "NORMAL" /\ Apply(m)
ApplyPromotion == \E m \in PseudoLegal(This) : move_type(m) = "PROMOTION" /\ Apply(m)
ApplyEnPassant == \E m \in PseudoLegal(This) : move_type(m) = "ENPASSANT" /\ Apply(m)
ApplyCastling == \E m \in PseudoLegal(This) : move_type(m) = "CASTLING" /\ Apply(m)

Next == ApplyNormal \/ ApplyPromotion \/ ApplyEnPassant \/ ApplyCastling

Spec == Init /\ [][Next]_vars

(***************************************************************************)
(* What the claims are measured against: attacks and segments read off    *)
(* the ledger square by square, walking from a square in one direction.    *)
(***************************************************************************)
RookDirs == {<<1, 0>>, <<-1, 0>>, <<0, 1>>, <<0, -1>>}
BishopDirs == {<<1, 1>>, <<1, -1>>, <<-1, 1>>, <<-1, -1>>}

\* the first occupied square met walking from (f, r) in direction d, or SQ_NONE
RECURSIVE FirstPiece(_, _, _, _)
FirstPiece(b, f, r, d) ==
  LET nf == f + d[1]
      nr == r + d[2]
  IN  IF nf < 0 \/ nf > 7 \/ nr < 0 \/ nr > 7 THEN SQ_NONE
      ELSE IF b[make_square(nf, nr)] /= NO_PIECE THEN make_square(nf, nr)
      ELSE FirstPiece(b, nf, nr, d)

SeenFrom(b, s, d) == FirstPiece(b, file_of(s), rank_of(s), d)

\* a rook or queen of colour c sees s along a rank or file of ledger b
RookLineAttacked(b, s, c) ==
  \E d \in RookDirs : SeenFrom(b, s, d) /= SQ_NONE
     /\ b[SeenFrom(b, s, d)] \in {make_piece(c, ROOK), make_piece(c, QUEEN)}

\* a bishop or queen of colour c sees s along a diagonal of ledger b
DiagonalAttacked(b, s, c) ==
  \E d \in BishopDirs : SeenFrom(b, s, d) /= SQ_NONE
     /\ b[SeenFrom(b, s, d)] \in {make_piece(c, BISHOP), make_piece(c, QUEEN)}

\* the squares of colour c's pieces that attack s on ledger b
AttackersOf(b, s, c) ==
  {t \in Squares :
     /\ b[t] /= NO_PIECE
     /\ color_of(b[t]) = c
     /\ \/ type_of(b[t]) = KNIGHT /\ s \in KnightTab[t]
        \/ type_of(b[t]) = KING /\ s \in KingTab[t]
        \/ type_of(b[t]) = PAWN /\ s \in PawnTab[c][t]
        \/ type_of(b[t]) \in {ROOK, QUEEN} /\ \E d \in RookDirs : SeenFrom(b, s, d) = t
        \/ type_of(b[t]) \in {BISHOP, QUEEN} /\ \E d \in BishopDirs : SeenFrom(b, s, d) = t}

\* some piece of colour c on ledger b attacks s
AttackedBy(b, s, c) == AttackersOf(b, s, c) /= {}

\* where the king of colour c stands on ledger b
KingSquares(b, c) == {s \in Squares : b[s] = make_piece(c, KING)}
KingOf(b, c) == CHOOSE s \in KingSquares(b, c) : TRUE


(***************************************************************************)
(* Claims settled on the game specification Spec.                          *)
(***************************************************************************)
\* the aggregate-occupancy agreement
AggregateOk ==
  /\ byTypeBB[ALL_PIECES] = byColorBB[WHITE] \cup byColorBB[BLACK]
  /\ byTypeBB[ALL_PIECES] = UNION {byTypeBB[pt] : pt \in PieceTypes}
  /\ byColorBB[WHITE] \cap byColorBB[BLACK] = {}
  /\ \A p1, p2 \in PieceTypes : p1 /= p2 => byTypeBB[p1] \cap byTypeBB[p2] = {}

\* the ledger/mask agreement
LedgerMaskOk ==
  \A s \in Squares :
    IF board[s] = NO_PIECE
    THEN /\ \A pt \in 0 .. 7 : s \notin byTypeBB[pt]
         /\ \A c \in Colors : s \notin byColorBB[c]
    ELSE /\ board[s] \in Pieces
         /\ s \in byTypeBB[ALL_PIECES]
         /\ \A pt \in PieceTypes : s \in byTypeBB[pt] <=> pt = type_of(board[s])
         /\ \A c \in Colors : s \in byColorBB[c] <=> c = color_of(board[s])

\* the piece-list/reverse-index agreement
ListOk ==
  \A pc \in Pieces :
    LET mask == byColorBB[color_of(pc)] \cap byTypeBB[type_of(pc)]
    IN  /\ pieceCount[pc] = Cardinality(mask)
        /\ \A s \in mask : pieceList[pc][index[s]] = s

\* C1: after construction from notation and after every applied legal move
\* (normal, capture, en-passant, promotion, castling) the all-pieces mask is
\* the union of the colour masks and of the role masks, these being
\* disjoint; every square is in exactly the masks of its ledger entry; and
\* every piece list agrees with its reverse index and its mask's popcount.
C1_ViewsAgree == AggregateOk /\ LedgerMaskOk /\ ListOk

\* a capture has been followed by an en-passant capture or a castling
C1_Witness ==
  /\ pliesFromNull = 2
  /\ lastMove.type \in {"ENPASSANT", "CASTLING"}
  /\ Cardinality(byTypeBB[ALL_PIECES]) >= 3

\* C2: the stored checkers set is the set of the opponent's pieces that
\* attack the king of the side to move, after construction and after every
\* applied move.
C2_CheckersCurrent ==
  checkersBB = attackers_to_cur(This, square_king(This, sideToMove))
                 \cap byColorBB[Them(sideToMove)]

\* C3: after a move that legal() accepted has been applied, the king of the
\* side that moved is attacked by no piece of the side now to move.
C3_KingSafeAfterLegal ==
  lastMove /= NoMove =>
    ~AttackedBy(board, KingOf(board, Them(sideToMove)), sideToMove)


\* C5: at a halfmove clock of 50 is-draw-by-move-rule answers true, and at
\* every smaller clock value it answers false.
C5_FiftyMoveDraw ==
  /\ rule50 = 50 => is_draw(This)
  /\ rule50 < 50 => ~is_draw(This)

\* the en-passant captures the side to move is offered
EnPassantMoves == {m \in PseudoLegal(This) : move_type(m) = "ENPASSANT"}

\* C6: an en-passant capture is accepted by legal() exactly when, on the
\* board with the capturing pawn moved to its destination and the captured
\* pawn taken off, no enemy rook or queen sees the mover's king along a rank
\* or file and no enemy bishop or queen sees it along a diagonal.
C6_EnPassantLegal ==
  \A m \in EnPassantMoves :
    LET after == move(This, m).board
        ksq == KingOf(board, sideToMove)
    IN  legal(This, m) <=> (/\ ~RookLineAttacked(after, ksq, Them(sideToMove))
                            /\ ~DiagonalAttacked(after, ksq, Them(sideToMove)))

\* an en-passant capture that vacates two squares of the king's rank and
\* bares the king to a rook on that rank is offered, and rejected
C6_Witness ==
  \E m \in EnPassantMoves :
    LET ksq == KingOf(board, sideToMove)
    IN  /\ ~legal(This, m)
        /\ rank_of(ksq) = rank_of(from_sq(m))
        /\ RookLineAttacked(move(This, m).board, ksq, Them(sideToMove))
        /\ ~RookLineAttacked(board, ksq, Them(sideToMove))

\* the castling moves the side to move is offered and legal() accepts
AcceptedCastlings ==
  {m \in PseudoLegal(This) : move_type(m) = "CASTLING" /\ legal(This, m)}

\* the squares strictly between two squares of one rank
RankBetween(a, b) == {s \in Squares : Min(a, b) < s /\ s < Max(a, b)}

KingMoves ==
  {m \in PseudoLegal(This) :
     type_of(board[from_sq(m)]) = KING /\ move_type(m) /= "CASTLING"}

\* C9: a non-castling king move is accepted by legal() exactly when no
\* opponent piece attacks the destination once the king has left its origin
\* square, which then blocks no sliding attack.
C9_KingMoveLegal ==
  \A m \in KingMoves :
    legal(This, m) <=> ~AttackedBy(move(This, m).board, to_sq(m), Them(sideToMove))

\* the own pieces that are the only piece between the king of colour c and
\* an aligned enemy slider
PinnedOf(b, c) ==
  LET ksq == KingOf(b, c)
      behind(s, d) == SeenFrom(b, s, d)
  IN  {s \in Squares :
         /\ b[s] /= NO_PIECE /\ color_of(b[s]) = c /\ s /= ksq
         /\ \/ \E d \in RookDirs : SeenFrom(b, ksq, d) = s /\ behind(s, d) /= SQ_NONE
                 /\ b[behind(s, d)] \in {make_piece(Them(c), ROOK), make_piece(Them(c), QUEEN)}
            \/ \E d \in BishopDirs : SeenFrom(b, ksq, d) = s /\ behind(s, d) /= SQ_NONE
                 /\ b[behind(s, d)] \in {make_piece(Them(c), BISHOP), make_piece(Them(c), QUEEN)}}

\* the moves of pieces other than the king that are not en-passant captures
OtherMoves ==
  {m \in PseudoLegal(This) :
     type_of(board[from_sq(m)]) /= KING /\ move_type(m) /= "ENPASSANT"}

\* C10: a move of a non-king piece that is not an en-passant capture is
\* accepted by legal() exactly when its origin holds no pinned piece or
\* origin, destination and own king are aligned.
C10_PinnedLegal ==
  \A m \in OtherMoves :
    legal(This, m) <=> \/ from_sq(m) \notin PinnedOf(board, sideToMove)
                       \/ aligned(from_sq(m), to_sq(m), KingOf(board, sideToMove))

(***************************************************************************)
(* What one apply changes. The fields of the notation the position was     *)
(* constructed from are read off the string itself.                        *)
(***************************************************************************)
\* how many spaces stand before the i-th character of s
RECURSIVE SpacesBefore(_, _)
SpacesBefore(s, i) ==
  IF i <= 1 THEN 0
  ELSE SpacesBefore(s, i - 1) + (IF s[i - 1] = " " THEN 1 ELSE 0)

\* the k-th space-separated field of s
Field(s, k) ==
  LET idx == {i \in 1 .. Len(s) : s[i] /= " " /\ SpacesBefore(s, i) = k - 1}
      first == CHOOSE i \in idx : \A j \in idx : i <= j
  IN  IF idx = {} THEN <<>>
      ELSE [j \in 1 .. Cardinality(idx) |-> s[first + j - 1]]

\* the colour the notation names as the side to move
NotationSide(s) == IF Field(s, 2) = <<"w">> THEN WHITE ELSE BLACK

\* the occupied squares of ledger b
Occupied(b) == {s \in Squares : b[s] /= NO_PIECE}

\* C13: after k applies from a position whose side to move was c, the side
\* to move is c when k is even and the other colour when k is odd
C13_SideParity ==
  sideToMove = IF pliesFromNull % 2 = 0 THEN NotationSide(fenIn)
               ELSE Them(NotationSide(fenIn))

C13_Witness ==
  /\ pliesFromNull = 2
  /\ move_type(lastMove) = "ENPASSANT"
  /\ sideToMove = NotationSide(fenIn)

\* C14: an apply leaves the halfmove clock at 0 when it took a piece off the
\* board or moved a pawn, and at the previous value plus one otherwise; a
\* castling adds one
C14_HalfmoveClock ==
  [][LET m == lastMove'
         captured == Cardinality(Occupied(board')) < Cardinality(Occupied(board))
         pawn == type_of(board[from_sq(m)]) = PAWN
     IN  /\ rule50' = IF captured \/ pawn THEN 0 ELSE rule50 + 1
         /\ move_type(m) = "CASTLING" => rule50' = rule50 + 1]_vars

C14_Witness ==
  /\ move_type(lastMove) = "CASTLING"
  /\ rule50 >= 2

\* C15: an apply removes from the castling rights exactly the rights the
\* masks attach to the move's origin or destination square, and adds none
C15_CastlingRightsRevoked ==
  [][LET m == lastMove'
         lost == castlingRightsMask[from_sq(m)] \cup castlingRightsMask[to_sq(m)]
     IN  /\ castlingRights' = castlingRights \ lost
         /\ castlingRights' \subseteq castlingRights
         /\ castlingRightsMask' = castlingRightsMask]_vars

\* a rook has captured the rook on its home square: both sides' rights are gone
C15_Witness ==
  /\ fenIn = FenRookCapture
  /\ pliesFromNull = 1
  /\ Cardinality(Occupied(board)) = 3
  /\ castlingRights = {}

C17_CastlingPlacement ==
  [][move_type(lastMove') = "CASTLING" =>
       LET kfrom == from_sq(lastMove')
           rfrom == to_sq(lastMove')
           us == sideToMove
           back == IF us = WHITE THEN 0 ELSE 7
           kto == make_square(IF rfrom > kfrom THEN 6 ELSE 2, back)
           rto == make_square(IF rfrom > kfrom THEN 5 ELSE 3, back)
       IN  /\ board'[kto] = make_piece(us, KING)
           /\ board'[rto] = make_piece(us, ROOK)
           /\ \A s \in {kfrom, rfrom} \ {kto, rto} : board'[s] = NO_PIECE
           /\ \A s \in Squares \ {kfrom, rfrom, kto, rto} : board'[s] = board[s]
           /\ pieceCount' = pieceCount
           /\ Cardinality(Occupied(board')) = Cardinality(Occupied(board))]_vars

C17_Witness ==
  /\ move_type(lastMove) = "CASTLING"
  /\ board[to_sq(lastMove)] = NO_PIECE
  /\ board[from_sq(lastMove)] = NO_PIECE

\* the pseudo-legal moves of the position that legal(m) accepts
LegalMoves == {m \in PseudoLegal(This) : legal(This, m)}

\* C18: for every legal move of a reached position, gives_check(m) before the
\* move is true iff after the move a piece of the mover attacks the
\* opponent's king
C18_GivesCheck ==
  \A m \in LegalMoves :
    gives_check(This, m)
      <=> AttackedBy(move(This, m).board, KingOf(board, Them(sideToMove)), sideToMove)

\* the squares from which a piece of role pt and colour c would attack square k
\* on ledger b
AttackSquares(b, c, pt, k) ==
  {s \in Squares \ {k} :
     AttackersOf([[b EXCEPT ![s] = make_piece(c, pt)] EXCEPT ![k] = NO_PIECE], k, c)
       \cap {s} /= {}}

\* C19: after construction and after every apply the stored blockers and
\* pinners of each colour are what slider_blockers returns for the enemy
\* pieces and that colour's king, and the stored check squares of each role
\* are the squares from which that role would attack the opponent's king
C19_CheckStateCurrent ==
  /\ \A c \in Colors :
       LET sb == slider_blockers(This, pieces_c(This, Them(c)), square_king(This, c))
       IN  /\ blockersForKing[c] = sb.result
           /\ pinnersForKing[c] = sb.pinners
  /\ \A pt \in PieceTypes \ {KING} :
       checkSquares[pt] =
         AttackSquares(board, sideToMove, pt, KingOf(board, Them(sideToMove)))

\* the squares an apply of move m by colour us involves
Involved(m, us) ==
  LET from == from_sq(m)
      to == to_sq(m)
      back == IF us = WHITE THEN 0 ELSE 7
  IN  CASE move_type(m) = "CASTLING" ->
             {from, to, make_square(IF to > from THEN 6 ELSE 2, back),
              make_square(IF to > from THEN 5 ELSE 3, back)}
        [] move_type(m) = "ENPASSANT" ->
             {from, to, make_square(file_of(to), rank_of(from))}
        [] OTHER -> {from, to}

\* C24: an apply changes the ledger on the squares the move involves only,
\* takes exactly one piece off the total on a capture and none otherwise,
\* and leaves the castling paths, the rights masks and the rook squares alone
C24_ApplyFrame ==
  [][LET m == lastMove'
         capture == \/ move_type(m) = "ENPASSANT"
                    \/ move_type(m) /= "CASTLING" /\ board[to_sq(m)] /= NO_PIECE
         taken == IF capture THEN 1 ELSE 0
     IN  /\ \A s \in Squares \ Involved(m, sideToMove) : board'[s] = board[s]
         /\ Cardinality(Occupied(board')) = Cardinality(Occupied(board)) - taken
         /\ pieceCount'[make_piece(WHITE, ALL_PIECES)] + pieceCount'[make_piece(BLACK, ALL_PIECES)]
              = pieceCount[make_piece(WHITE, ALL_PIECES)]
                + pieceCount[make_piece(BLACK, ALL_PIECES)] - taken
         /\ castlingPath' = castlingPath
         /\ castlingRightsMask' = castlingRightsMask
         /\ castlingRookSquare' = castlingRookSquare]_vars

\* an en-passant capture has emptied the captured pawn's square
C24_Witness ==
  /\ move_type(lastMove) = "ENPASSANT"
  /\ board[make_square(file_of(to_sq(lastMove)), rank_of(from_sq(lastMove)))] = NO_PIECE
  /\ board[to_sq(lastMove)] /= NO_PIECE

\* the number the first n characters of the digit string f read as
RECURSIVE NumberUpTo(_, _)
NumberUpTo(f, n) ==
  IF n = 0 THEN 0 ELSE 10 * NumberUpTo(f, n - 1) + Find(DigitChars, f[n])

Number(f) == NumberUpTo(f, Len(f))

\* how many of the applies so far were black's
BlackMoves ==
  IF NotationSide(fenIn) = WHITE THEN pliesFromNull \div 2
  ELSE (pliesFromNull + 1) \div 2

\* C22: for a position decoded with full-move number N encode emits N, and
\* after each apply one more exactly when black has just moved
C22_FullMoveNumber ==
  Field(fen_encode(This), 6) = IntToStr(Number(Field(fenIn, 6)) + BlackMoves)


(***************************************************************************)
(* The codec specification: a syntactically valid notation string is       *)
(* decoded into the position, and the position is encoded again.           *)
(***************************************************************************)
\* the largest halfmove clock and full-move number of the strings
MaxHalfmove == 1
MaxFullMove == 3

\* "4k3/8/8/8/8/8/8/4K3"
BoardKings ==
  <<"4", "k", "3", "/", "8", "/", "8", "/", "8", "/", "8", "/", "8", "/",
  "8", "/", "4", "K", "3">>
\* "r3k2r/8/8/8/8/8/8/R3K2R"
BoardRooks ==
  <<"r", "3", "k", "2", "r", "/", "8", "/", "8", "/", "8", "/", "8", "/",
  "8", "/", "8", "/", "R", "3", "K", "2", "R">>
\* "4k3/8/8/3pP3/8/8/8/4K3"
BoardEpWhite ==
  <<"4", "k", "3", "/", "8", "/", "8", "/", "3", "p", "P", "3", "/", "8",
  "/", "8", "/", "8", "/", "4", "K", "3">>
\* "4k3/8/8/8/3pP3/8/8/4K3"
BoardEpBlack ==
  <<"4", "k", "3", "/", "8", "/", "8", "/", "8", "/", "3", "p", "P", "3",
  "/", "8", "/", "8", "/", "4", "K", "3">>
\* "rnbqkbnr/pppppppp/8/8/8/8/PPPPPPPP/RNBQKBNR"
BoardStart ==
  <<"r", "n", "b", "q", "k", "b", "n", "r", "/", "p", "p", "p", "p", "p",
  "p", "p", "p", "/", "8", "/", "8", "/", "8", "/", "8", "/", "P", "P", "P",
  "P", "P", "P", "P", "P", "/", "R", "N", "B", "Q", "K", "B", "N", "R">>

\* the layouts, and with each the fields that are valid with it: an
\* en-passant square is named only where the capture is there to make
CodecLayouts ==
  {[layout |-> BoardKings, sides |-> {"w", "b"},
    castlings |-> {<<"-">>}, eps |-> {<<"-">>}],
   [layout |-> BoardRooks, sides |-> {"w", "b"},
    castlings |-> {<<"-">>, <<"K", "Q", "k", "q">>, <<"K", "q">>}, eps |-> {<<"-">>}],
   [layout |-> BoardEpWhite, sides |-> {"w"},
    castlings |-> {<<"-">>}, eps |-> {<<"-">>, <<"d", "6">>}],
   [layout |-> BoardEpBlack, sides |-> {"b"},
    castlings |-> {<<"-">>}, eps |-> {<<"-">>, <<"e", "3">>}],
   [layout |-> BoardStart, sides |-> {"w", "b"},
    castlings |-> {<<"K", "Q", "k", "q">>}, eps |-> {<<"-">>}]}

CodecFENs ==
  UNION {{L.layout \o <<" ", sd, " ">> \o ca \o <<" ">> \o ep \o <<" ">>
            \o IntToStr(h) \o <<" ">> \o IntToStr(n) :
          sd \in L.sides, ca \in L.castlings, ep \in L.eps,
          h \in 0 .. MaxHalfmove, n \in 1 .. MaxFullMove} : L \in CodecLayouts}

\* "4k3/8/8/4P3/8/8/8/4K3": a pawn that could capture on d6, and no pawn to capture
BoardEpNoVictim ==
  <<"4", "k", "3", "/", "8", "/", "8", "/", "4", "P", "3", "/", "8", "/",
  "8", "/", "8", "/", "4", "K", "3">>
\* "4k3/8/8/3p4/8/8/8/4K3": a pawn that has just passed d6, and no pawn to capture it
BoardEpNoCapturer ==
  <<"4", "k", "3", "/", "8", "/", "8", "/", "3", "p", "4", "/", "8", "/",
  "8", "/", "8", "/", "4", "K", "3">>

\* strings whose en-passant field names a square where no capture is to be
\* made, or no square of the third or sixth rank
EpProbeFENs ==
  {L \o <<" ", sd, " ", "-", " ">> \o ep \o <<" ", "0", " ", "1">> :
     L \in {BoardKings, BoardEpWhite, BoardEpBlack, BoardEpNoVictim, BoardEpNoCapturer},
     sd \in {"w", "b"},
     ep \in {<<"d", "6">>, <<"e", "3">>, <<"e", "6">>, <<"d", "5">>}}

\* "4k3/8/8/8/8/8/3Pp3/4K3 w - e3 0 1": the named square is on the third rank
\* and it is white, whose pawn on d2 attacks it, that is to move
FenEpWrongSide ==
  <<"4", "k", "3", "/", "8", "/", "8", "/", "8", "/", "8", "/", "8", "/",
  "3", "P", "p", "3", "/", "4", "K", "3", " ", "w", " ", "-", " ", "e", "3",
  " ", "0", " ", "1">>

\* "4k3/8/8/8/8/8/8/4K2R"
BoardWhiteRook ==
  <<"4", "k", "3", "/", "8", "/", "8", "/", "8", "/", "8", "/", "8", "/",
  "8", "/", "4", "K", "2", "R">>
\* "4kx2/8/8/8/8/8/8/4K1y1": x and y are no piece letters
BoardUnknownLetters ==
  <<"4", "k", "x", "2", "/", "8", "/", "8", "/", "8", "/", "8", "/", "8",
  "/", "8", "/", "4", "K", "1", "y", "1">>

\* strings that are not well formed: castling letters with no rook to go
\* with them, unknown piece letters, fields missing at the end
MalformedFENs ==
  {L \o <<" ", sd, " ">> \o ca \o <<" ", "-", " ", "0", " ", "1">> :
     L \in {BoardKings, BoardWhiteRook},
     sd \in {"w", "b"},
     ca \in {<<"K">>, <<"Q">>, <<"k">>, <<"q">>, <<"H">>, <<"a">>, <<"-">>}}
  \cup {BoardUnknownLetters \o <<" ", "w", " ", "-", " ", "-", " ", "0", " ", "1">>,
        BoardRooks \o <<" ", "w">>,
        BoardRooks,
        FenEpWrongSide}

InitCodec ==
  /\ Is(clear)
  /\ NoNode
  /\ fenIn \in CodecFENs \cup EpProbeFENs \cup MalformedFENs
  /\ fenOut = <<>>
  /\ departed = {}
  /\ lastMove = NoMove
  /\ sbCall = NoCall
  /\ phase = "input"

\* void Position::fen(const std::string& s)
Decode ==
  /\ phase = "input"
  /\ ~FenDecode(fenIn).ub
  /\ Becomes(fen_decode(fenIn))
  /\ phase' = "decoded"
  /\ UNCHANGED <<fenIn, fenOut, departed, lastMove, sbCall, nodeVars>>

\* void Position::fen(const std::string& s) when a rook scan steps off the
\* board: piece_on reads outside board[], which the language leaves
\* undefined. The read faults, or it returns what lies beside the array and
\* the decoder goes on with it; the position holds the other fields.
DecodeOutside ==
  /\ phase = "input"
  /\ FenDecode(fenIn).ub
  /\ Becomes(fen_decode(fenIn))
  /\ phase' \in {"faulted", "outside"}
  /\ UNCHANGED <<fenIn, fenOut, departed, lastMove, sbCall, nodeVars>>

\* const std::string Position::fen() const
Encode ==
  /\ phase = "decoded"
  /\ fenOut' = fen_encode(This)
  /\ phase' = "encoded"
  /\ UNCHANGED <<posVars, fenIn, departed, lastMove, sbCall, nodeVars>>

NextCodec == Decode \/ DecodeOutside \/ Encode

SpecCodec == InitCodec /\ [][NextCodec]_vars

\* C4: decoding a syntactically valid notation string and encoding the
\* position at once gives the string back: layout, side to move, castling
\* rights, en-passant field, halfmove clock and full-move number.
C4_RoundTrip == phase = "encoded" /\ fenIn \in CodecFENs => fenOut = fenIn

\* the square the notation's en-passant field names, or SQ_NONE
NamedSquare(s) ==
  LET f == Field(s, 4)
  IN  IF Len(f) = 2 /\ Find(LowerChars, f[1]) \in 0 .. 7 /\ Find(DigitChars, f[2]) \in 1 .. 8
      THEN make_square(Find(LowerChars, f[1]), Find(DigitChars, f[2]) - 1)
      ELSE SQ_NONE

\* on ledger b with stm to move, a pawn of stm attacks s and an enemy pawn
\* stands where a double push over s would have put it
Capturable(b, stm, s) ==
  LET front == IF stm = WHITE THEN s - 8 ELSE s + 8
  IN  /\ s \in Squares
      /\ front \in Squares
      /\ \E a \in AttackersOf(b, s, stm) : type_of(b[a]) = PAWN
      /\ b[front] = make_piece(Them(stm), PAWN)

\* C20: decode sets the en-passant target to the square the notation names
\* only if a pawn of the side to move attacks it and an enemy pawn stands
\* directly in front of it; in every other case the target is none
C20_DecodeEnPassant ==
  phase \in {"decoded", "encoded"} =>
    LET named == NamedSquare(fenIn)
        ok == Capturable(board, NotationSide(fenIn), named)
    IN  /\ epSquare /= SQ_NONE => epSquare = named /\ ok
        /\ ~ok => epSquare = SQ_NONE
        /\ Field(fenIn, 4) = <<"-">> => epSquare = SQ_NONE

\* how many characters of the layout field are piece letters
PieceLetters(f) ==
  Cardinality({i \in 1 .. Len(f) : f[i] /= " " /\ Find(PieceToChar, f[i]) >= 0})

\* C23: decode returns on every string without reading a square outside the
\* board, places a piece for the recognised piece letters only, and grants
\* no castling right when the castling field is missing or "-"
C23_DecodePermissive ==
  phase /= "input" =>
    /\ phase \in {"decoded", "encoded"}
    /\ Cardinality(Occupied(board)) = PieceLetters(Field(fenIn, 1))
    /\ Field(fenIn, 3) \in {<<>>, <<"-">>} => castlingRights = {}

\* C25: in every position construction from notation produces, the
\* en-passant target is none or on the sixth rank of the side to move
C25_EnPassantRank ==
  phase \in {"decoded", "encoded"} =>
    \/ epSquare = SQ_NONE
    \/ rank_of(epSquare) = (IF sideToMove = WHITE THEN 5 ELSE 2)

\* C26: in every position construction from notation produces, for each
\* castling right held the recorded rook square holds a rook of the right's
\* colour, its rights mask is that right alone, and the rights mask of that
\* colour's king square contains the right
C26_CastlingRookSquares ==
  phase \in {"decoded", "encoded"} =>
    \A c \in Colors, cs \in {KING_SIDE, QUEEN_SIDE} :
      LET cr == MakeCastlingRight(c, cs)
          rsq == castlingRookSquare[cr]
      IN  cr \in castlingRights =>
            /\ board[rsq] = make_piece(c, ROOK)
            /\ castlingRightsMask[rsq] = {cr}
            /\ cr \in castlingRightsMask[KingOf(board, c)]

C20_Witness ==
  /\ phase = "decoded"
  /\ epSquare /= SQ_NONE
  /\ epSquare = NamedSquare(fenIn)


(***************************************************************************)
(* The blockers specification: pieces are placed on a board that holds     *)
(* both kings and sliders aligned with them, and slider_blockers is called *)
(* for either king with a set of sliders.                                  *)
(***************************************************************************)
\* how many pieces are placed on the constructed board
MaxAdded == 2

\* "k3r3/8/8/b7/8/8/8/R3K2q w - - 0 1": rook a1 and bishop a5 on the black king's file; rook e8, queen h1
\* and bishop a5 aimed at the white king
FenBlockers ==
  <<"k", "3", "r", "3", "/", "8", "/", "8", "/", "b", "7", "/", "8", "/",
  "8", "/", "8", "/", "R", "3", "K", "2", "q", " ", "w", " ", "-", " ", "-",
  " ", "0", " ", "1">>

\* the squares pieces are placed on: e4, e6, c3, g1, a3, c6
PutSquares == {28, 44, 18, 6, 16, 42}
PutPieces == {make_piece(WHITE, KNIGHT), make_piece(BLACK, KNIGHT)}
PieceTotal(P) ==
  P.pieceCount[make_piece(WHITE, ALL_PIECES)] + P.pieceCount[make_piece(BLACK, ALL_PIECES)]

InitBlockers ==
  /\ fenIn = FenBlockers
  /\ NoNode
  /\ Is(fen_decode(FenBlockers))
  /\ fenOut = <<>>
  /\ departed = {}
  /\ lastMove = NoMove
  /\ sbCall = NoCall
  /\ phase = "ledger"

\* put_piece(pc, s) on an empty square
PutPiece(pc, s) ==
  /\ phase = "ledger"
  /\ empty(This, s)
  /\ PieceTotal(This) < PieceTotal(fen_decode(FenBlockers)) + MaxAdded
  /\ Becomes(put_piece(This, pc, s))
  /\ lastMove' = Mv(SQ_NONE, s, "PUT", KNIGHT)
  /\ sbCall' = NoCall
  /\ UNCHANGED <<fenIn, fenOut, departed, phase, nodeVars>>

\* slider_blockers(sliders, square<KING>(c), pinners)
CallSliderBlockers(c, sliders) ==
  /\ phase = "ledger"
  /\ LET out == slider_blockers(This, sliders, square_king(This, c))
     IN  sbCall' = [s |-> square_king(This, c), sliders |-> sliders,
                    result |-> out.result, pinners |-> out.pinners]
  /\ UNCHANGED <<posVars, fenIn, fenOut, departed, lastMove, phase, nodeVars>>

NextBlockers ==
  \/ \E pc \in PutPieces, s \in PutSquares : PutPiece(pc, s)
  \/ \E c \in Colors, sliders \in {byColorBB[WHITE], byColorBB[BLACK], byTypeBB[ALL_PIECES]} :
       CallSliderBlockers(c, sliders)

SpecBlockers == InitBlockers /\ [][NextBlockers]_vars

\* the sign of a number
Sgn(x) == IF x > 0 THEN 1 ELSE IF x < 0 THEN -1 ELSE 0

\* the occupied squares met walking from (f, r) in direction d up to, and
\* without, the square t
RECURSIVE PiecesUpTo(_, _, _, _, _)
PiecesUpTo(b, f, r, d, t) ==
  LET nf == f + d[1]
      nr == r + d[2]
      sq == make_square(nf, nr)
  IN  IF nf < 0 \/ nf > 7 \/ nr < 0 \/ nr > 7 \/ sq = t THEN {}
      ELSE (IF b[sq] /= NO_PIECE THEN {sq} ELSE {}) \cup PiecesUpTo(b, nf, nr, d, t)

\* the pieces standing strictly between two aligned squares
Segment(b, s, t) ==
  PiecesUpTo(b, file_of(s), rank_of(s),
             <<Sgn(file_of(t) - file_of(s)), Sgn(rank_of(t) - rank_of(s))>>, t)

\* the sliders of the call that lie on a rook line (rook, queen) or on a
\* diagonal (bishop, queen) through the king's square
AlignedSliders ==
  {sl \in sbCall.sliders :
     \/ type_of(board[sl]) \in {ROOK, QUEEN} /\ SameLineR(sbCall.s, sl)
     \/ type_of(board[sl]) \in {BISHOP, QUEEN} /\ SameLineB(sbCall.s, sl)}

\* C8: slider_blockers returns as blockers exactly the pieces that stand
\* alone between the king's square and an aligned slider of the given set,
\* and as pinners exactly the sliders whose lone blocker has the colour of
\* the piece on the king's square; a segment holding no piece, or two or
\* more, gives neither a blocker nor a pinner.
C8_SliderBlockers ==
  sbCall /= NoCall =>
    LET s == sbCall.s
        seg(sl) == Segment(board, s, sl)
        alone == {sl \in AlignedSliders : Cardinality(seg(sl)) = 1}
    IN  /\ sbCall.result = UNION {seg(sl) : sl \in alone}
        /\ sbCall.pinners =
             {sl \in alone : \A p \in seg(sl) : color_of(board[p]) = color_of(board[s])}

\* a piece has been placed into a segment that held one piece, and the
\* call made then names neither of the two a blocker nor the slider a pinner
C8_Witness ==
  /\ sbCall /= NoCall
  /\ lastMove.type = "PUT"
  /\ \E sl \in AlignedSliders :
       /\ Cardinality(Segment(board, sbCall.s, sl)) = 2
       /\ lastMove.to \in Segment(board, sbCall.s, sl)
       /\ Segment(board, sbCall.s, sl) \cap sbCall.result = {}
       /\ sl \notin sbCall.pinners

(***************************************************************************)
(* The node specification (api.cpp): a node holds a position; a child's    *)
(* position is constructed from the parent's position and a move, and the  *)
(* draw check compares a position with another one of its line.            *)
(*                                                                         *)
(* Position::operator= consists of the statement "*this = pos" and has no  *)
(* return statement: it calls itself without end, which the language       *)
(* leaves undefined. The builds differ: the calls nest until the stack is  *)
(* exhausted, or the call is made a jump and the function spins, or the    *)
(* call is dropped and the function returns having copied nothing.         *)
(***************************************************************************)
\* how deep the calls of operator= nest before the stack is exhausted
MaxDepth == 3

\* what the storage of a position that has not been assigned may hold
Indeterminate == {fen_decode(FenCastle), fen_decode(FenPinned)}

InitNode ==
  /\ \E s \in StartFENs : fenIn = s /\ src = fen_decode(s)
  /\ \E X \in Indeterminate : Is(X)
  /\ depth = 0
  /\ eqCall = NoCompare
  /\ fenOut = <<>>
  /\ departed = {}
  /\ lastMove = NoMove
  /\ sbCall = NoCall
  /\ phase = "parent"

\* Position::Position(const Position& pos, Move m) is entered and calls
\* operator=
Construct(m) ==
  /\ phase = "parent"
  /\ legal(src, m)
  /\ lastMove' = m
  /\ depth' = 1
  /\ phase' = "assigning"
  /\ UNCHANGED <<posVars, fenIn, fenOut, departed, sbCall, src, eqCall>>

\* operator= executes "*this = pos": it calls itself
AssignRecurse ==
  /\ phase = "assigning"
  /\ depth < MaxDepth
  /\ depth' = depth + 1
  /\ UNCHANGED <<posVars, fenIn, fenOut, departed, lastMove, sbCall, phase, src, eqCall>>

\* the nested calls have used up the stack
AssignOverflow ==
  /\ phase = "assigning"
  /\ depth = MaxDepth
  /\ phase' = "overflow"
  /\ UNCHANGED <<posVars, fenIn, fenOut, departed, lastMove, sbCall, src, depth, eqCall>>

\* the self-call was made a jump: the function never returns
AssignSpin ==
  /\ phase = "assigning"
  /\ phase' = "spinning"
  /\ UNCHANGED <<posVars, fenIn, fenOut, departed, lastMove, sbCall, src, depth, eqCall>>

\* the self-call was dropped: operator= returns with no field copied, and
\* the constructor goes on to move(m) on what the storage holds
AssignReturn ==
  /\ phase = "assigning"
  /\ depth' = 0
  /\ IF lastMove \in PseudoLegal(This)
     THEN Becomes(move(This, lastMove)) /\ phase' = "constructed"
     ELSE phase' = "undefined" /\ UNCHANGED posVars
  /\ UNCHANGED <<fenIn, fenOut, departed, lastMove, sbCall, src, eqCall>>

\* Node::isDraw: position == parent->parent->position
Compare(Q) ==
  /\ phase = "parent"
  /\ eqCall' = [other |-> Q.board, result |-> operator_eq(src, Q)]
  /\ phase' = "compared"
  /\ UNCHANGED <<posVars, fenIn, fenOut, departed, lastMove, sbCall, src, depth>>

NextNode ==
  \/ \E m \in PseudoLegal(src) : Construct(m)
  \/ AssignRecurse
  \/ AssignOverflow
  \/ AssignSpin
  \/ AssignReturn
  \/ \E s \in StartFENs : Compare(fen_decode(s))

\* a call that has been entered keeps running
SpecNode == InitNode /\ [][NextNode]_vars /\ WF_vars(NextNode)

\* C11: constructing a position from a position and a move terminates with
\* the new position equal to the source with the move applied
C11_CopyConstruct ==
  (phase = "assigning") ~> (phase = "constructed" /\ Is(move(src, lastMove)))

\* C12: the comparison of two positions is true iff they hold the same piece
\* or none on every square; a position compares equal to itself
C12_SamePosition ==
  phase = "compared" =>
    (eqCall.result <=> \A s \in Squares : src.board[s] = eqCall.other[s])

(***************************************************************************)
(* The ledger specification (position.h): one of the three mutators is     *)
(* called, alone, on a position constructed from notation.                 *)
(***************************************************************************)
\* the squares pieces are put on and moved to
LedgerSquares == {16, 27, 36, 45, 54, 23}

InitLedger ==
  /\ \E s \in StartFENs : fenIn = s /\ Is(fen_decode(s))
  /\ NoNode
  /\ fenOut = <<>>
  /\ departed = {}
  /\ lastMove = NoMove
  /\ sbCall = NoCall
  /\ phase = "ledger"

\* put_piece(pc, s) on an empty square
LedgerPut(pc, s) ==
  /\ phase = "ledger"
  /\ empty(This, s)
  /\ Becomes(put_piece(This, pc, s))
  /\ lastMove' = Mv(SQ_NONE, s, "PUT", type_of(pc))
  /\ phase' = "returned"
  /\ UNCHANGED <<fenIn, fenOut, departed, sbCall, nodeVars>>

\* remove_piece(pc, s) of the piece pc that stands on s
LedgerRemove(s) ==
  /\ phase = "ledger"
  /\ ~empty(This, s)
  /\ Becomes(remove_piece(This, piece_on(This, s), s))
  /\ lastMove' = Mv(s, SQ_NONE, "REMOVE", type_of(piece_on(This, s)))
  /\ phase' = "returned"
  /\ UNCHANGED <<fenIn, fenOut, departed, sbCall, nodeVars>>

\* move_piece(pc, from, to) of the piece pc that stands on from, to an empty square
LedgerMove(from, to) ==
  /\ phase = "ledger"
  /\ ~empty(This, from)
  /\ empty(This, to)
  /\ Becomes(move_piece(This, piece_on(This, from), from, to))
  /\ lastMove' = Mv(from, to, "MOVE", type_of(piece_on(This, from)))
  /\ phase' = "returned"
  /\ UNCHANGED <<fenIn, fenOut, departed, sbCall, nodeVars>>

NextLedger ==
  \/ \E pc \in PutPieces, s \in LedgerSquares : LedgerPut(pc, s)
  \/ \E s \in Squares : LedgerRemove(s)
  \/ \E from \in Squares, to \in LedgerSquares : LedgerMove(from, to)

SpecLedger == InitLedger /\ [][NextLedger]_vars

\* C21: when put_piece, remove_piece or move_piece returns, every square's
\* ledger entry matches the masks (an emptied square reads none and is in no
\* mask) and the piece lists, reverse index and counts match the masks
C21_MutatorsAgree ==
  phase = "returned" => AggregateOk /\ LedgerMaskOk /\ ListOk

====
